---------------------------- MODULE Spec2Model ----------------------------
(***************************************************************************)
(* The HTTP handlers of main.go (events, persons, images and their         *)
(* tagging tables) as a state machine over a relational store.             *)
(*                                                                         *)
(* A worker is one goroutine of the HTTP server handling one request at a  *)
(* time.  A handler is cut into steps at its store calls: the statements   *)
(* between two store calls touch only the handler's locals, so one action  *)
(* is one store call together with the local code that follows it, up to   *)
(* the next store call or the return (deferred tx.Rollback() included).    *)
(*                                                                         *)
(* The store is MySQL/InnoDB as the handlers see it: committed tables,     *)
(* per-transaction pending writes that Commit applies and Rollback drops,  *)
(* AUTO_INCREMENT counters that a rollback does not give back, a           *)
(* LAST_INSERT_ID() kept per connection, and row locks that make a         *)
(* statement wait for the transaction holding the row.                     *)
(***************************************************************************)
EXTENDS Integers, Sequences, FiniteSets, TLC

VARIABLES
    tbl,            \* committed rows of events, persons, images: table -> (id -> row)
    tag,            \* committed rows of the tagging tables: table -> (pair -> count)
    autoInc,        \* AUTO_INCREMENT counter of each entity table
    lastInsertId,   \* LAST_INSERT_ID() of the connection each worker's tx runs on
    files,          \* ../public/images: image id -> "partial" | "full"
    openRows,       \* sql.Rows that were neither read to their end nor closed:
                    \* each keeps its connection of the pool
    pc,             \* where each worker's handler stands
    req,            \* the request each worker is handling
    tx,             \* each worker's transaction: state and pending writes
    loc,            \* the handler's locals (id, loop index, query results)
    resp,           \* the response the handler returned
    logged,         \* what the handler wrote to c.Logger() for this request
    created,        \* history: table -> (returned id -> fields given to create)
    deleted,        \* history: table -> (id a delete answered 204 for -> whether
                    \*          a row has been committed under the id since)
    delIssued,      \* history: table -> ids for which a delete was issued
    obs,            \* history: what was known when the request read the store
    nreq            \* requests the clients have yet to issue

dataVars == <<tbl, tag, autoInc, lastInsertId, files>>
storeVars == <<tbl, tag, autoInc, lastInsertId, files, openRows>>
handlerVars == <<pc, req, tx, loc, resp, logged>>
historyVars == <<created, deleted, delIssued, obs, nreq>>
vars == <<tbl, tag, autoInc, lastInsertId, files, openRows, pc, req, tx, loc, resp,
          logged, created, deleted, delIssued, obs, nreq>>

---------------------------------------------------------------------------
(* Bounds of the model. *)

NumWorkers == 2
MaxRequests == 3
MaxTagRequests == 2
MaxWriteRequests == 2
MaxId == 2
MaxList == 2
MaxPoolRequests == 11

Workers == 1 .. NumWorkers
Ids == 1 .. MaxId

(* Program constants. *)

mysqlErrNumDuplicateEntry == 1062
MaxUploadSize == 1000000
MaxOpenConns == 10
DefaultAccountId == 1

StatusOK == 200
StatusCreated == 201
StatusNoContent == 204
StatusBadRequest == 400
StatusNotFound == 404
StatusConflict == 409
StatusInternalServerError == 500

EntityTables == {"events", "persons", "images"}
TagTables == {"event_person_tagging", "event_image_tagging"}
Pairs == Ids \X Ids

---------------------------------------------------------------------------
(* event_date: a JSON number goes into a temporal column and comes back as *)
(* a time.Time.                                                            *)

Date(y, m, d) == [year |-> y, month |-> m, day |-> d,
                  hour |-> 0, minute |-> 0, second |-> 0]
ZeroTime == Date(0, 0, 0)

(* MySQL reads a number given for a DATETIME column as YYMMDD, YYYYMMDD or *)
(* YYMMDDhhmmss digits, never as seconds since the epoch.  dpart/tpart are *)
(* the date digits (YYYYMMDD) and the time digits (hhmmss) it arrives at.  *)
DateDigits(n) ==
    IF n < 101 THEN -1
    ELSE IF n <= 691231 THEN n + 20000000
    ELSE IF n < 700101 THEN -1
    ELSE IF n <= 991231 THEN n + 19000000
    ELSE IF n < 10000101 THEN -1
    ELSE IF n <= 99991231 THEN n
    ELSE IF n < 101000000 THEN -1
    ELSE (n \div 1000000) + 20000000

TimeDigits(n) == IF n >= 101000000 THEN n % 1000000 ELSE 0

NumberToDatetime(n) ==
    LET dp == DateDigits(n)
        tp == TimeDigits(n)
        dt == [year |-> dp \div 10000, month |-> (dp \div 100) % 100,
               day |-> dp % 100, hour |-> tp \div 10000,
               minute |-> (tp \div 100) % 100, second |-> tp % 100]
    IN  IF /\ dp > 0
           /\ dt.month \in 1 .. 12 /\ dt.day \in 1 .. 31
           /\ dt.hour <= 23 /\ dt.minute <= 59 /\ dt.second <= 59
        THEN [ok |-> TRUE, dt |-> dt]
        ELSE [ok |-> FALSE, dt |-> ZeroTime]

(* Days from 1970-01-01 to y-m-d in the proleptic Gregorian calendar. *)
DaysFromCivil(y, m, d) ==
    LET yy == IF m <= 2 THEN y - 1 ELSE y
        era == yy \div 400
        yoe == yy - era * 400
        mp == (m + 9) % 12
        doy == (153 * mp + 2) \div 5 + d - 1
        doe == yoe * 365 + yoe \div 4 - yoe \div 100 + doy
    IN  era * 146097 + doe - 719468

TokyoOffset == 32400

(* time.Time.Unix() of a DATETIME parsed with parseTime=true&loc=Asia/Tokyo. *)
Unix(dt) ==
    DaysFromCivil(dt.year, dt.month, dt.day) * 86400
        + dt.hour * 3600 + dt.minute * 60 + dt.second - TokyoOffset


---------------------------------------------------------------------------
(* Requests: what c.Param, c.Bind and c.FormFile hand to a handler. *)

ZeroPerson == [first_name |-> "", last_name |-> ""]
AdaLovelace == [first_name |-> "Ada", last_name |-> "Lovelace"]
AdaOnly == [first_name |-> "Ada", last_name |-> ""]

ZeroEvent == [title |-> "", description |-> "", event_date |-> 0]
NewYear == [title |-> "party", description |-> "new year", event_date |-> 20200101]
EpochEvent == [title |-> "party", description |-> "epoch", event_date |-> 1600000000]

(* c.Bind: a well-formed body decodes to its value.  On a malformed body   *)
(* Bind returns an error and the target holds what the decoder had filled  *)
(* in: nothing (its zero value) after a syntax error, the other fields     *)
(* after a field of the wrong type.                                        *)
PersonBodies ==
    [ok : {TRUE}, val : {AdaLovelace}] \cup [ok : {FALSE}, val : {ZeroPerson, AdaOnly}]
EventBodies == [ok : {TRUE}, val : {NewYear, EpochEvent}] \cup [ok : {FALSE}, val : {ZeroEvent}]

RECURSIVE SeqsUpTo(_)
SeqsUpTo(n) ==
    IF n = 0 THEN {<<>>}
    ELSE LET shorter == SeqsUpTo(n - 1)
         IN  shorter \cup {Append(s, x) : s \in {t \in shorter : Len(t) = n - 1}, x \in Ids}

(* The body of a bind is a list of Person (Image) values, of which the     *)
(* handler reads person.PersonId (image.ImageId): the list of those ids.   *)
(* After a failed Bind the list holds the elements decoded so far.         *)
IdLists == SeqsUpTo(MaxList)
ListBodies == [ok : {TRUE}, val : IdLists] \cup [ok : {FALSE}, val : {<<>>, <<1>>}]

(* A multipart upload: whether the "file" part is there, its name, its     *)
(* Content-Type header, its size, and whether file.Open() works.           *)
NoFile == [present |-> FALSE, name |-> "", mime |-> "", size |-> 0, opens |-> TRUE]
Uploads ==
    {NoFile} \cup [present : {TRUE}, name : {"a.jpg"}, mime : {"image/jpeg"},
                   size : {MaxUploadSize, MaxUploadSize + 1, 2 * MaxUploadSize},
                   opens : {TRUE}]
             \cup [present : {TRUE}, name : {"a.jpg"}, mime : {"image/jpeg"},
                   size : {MaxUploadSize}, opens : {FALSE}]

NoBody == [ok |-> TRUE, val |-> <<>>]
Request(op, id, body, file) == [op |-> op, id |-> id, body |-> body, file |-> file]
NoRequest == Request("none", 0, NoBody, NoFile)

(* What a store call can answer: "ok", "dup" (MySQL error 1062, duplicate  *)
(* entry) or "err" (any other failure: connection lost, lock wait timeout, *)
(* deadlock victim, a value the column refuses).                           *)
Fails == {"ok", "err"}
ErrorNumber(o) == IF o = "dup" THEN 1062 ELSE 1205

---------------------------------------------------------------------------
(* Responses. *)

Response(status, body) == [status |-> status, body |-> body]
Empty == [t |-> "empty"]
Text(s) == [t |-> "text", text |-> s]
Json(v) == [t |-> "json", v |-> v]
NoResponse == Response(0, Empty)

Is2xx(status) == status \in 200 .. 299

---------------------------------------------------------------------------
(* The store. *)

NoTx == [st |-> "none", ins |-> {}, del |-> {}, tags |-> <<>>]
OpenTx == [NoTx EXCEPT !.st = "open"]

NoLocals == [id |-> 0, i |-> 1, fault |-> FALSE,
             event |-> <<>>, persons |-> <<>>, images |-> <<>>]
NoObs == [made |-> FALSE, fields |-> <<>>, delIssued |-> FALSE, deleted |-> FALSE,
          revived |-> FALSE, found |-> FALSE, bound |-> {}, inserted |-> 0,
          raced |-> FALSE]

(* db.SetMaxOpenConns(10): the connections of the pool in use are those of *)
(* the open transactions and those of the sql.Rows left open.  A call that *)
(* needs a connection (Beginx, Get, Queryx) waits until one is free.       *)
InUse == Cardinality({w \in Workers : tx[w].st = "open"}) + openRows
FreeConn == InUse < MaxOpenConns

(* Rows of one tagging table a transaction has inserted and not committed. *)
PendingTags(t, table) ==
    {k \in 1 .. Len(t.tags) : t.tags[k][1] = table}

(* InnoDB row locks: a row another open transaction inserted or deleted.   *)
RowLocked(w, table, id) ==
    \E v \in Workers \ {w} :
        /\ tx[v].st = "open"
        /\ \/ \E r \in tx[v].ins : r[1] = table /\ r[2] = id
           \/ <<table, id>> \in tx[v].del

PairLocked(w, table, pair) ==
    \E v \in Workers \ {w} :
        /\ tx[v].st = "open"
        /\ \E k \in PendingTags(tx[v], table) : tx[v].tags[k][2] = pair

(* The unique key of a tagging table over (event_id, x_id): the pair is    *)
(* committed, or this transaction has inserted it already.                 *)
IsDuplicate(w, table, pair) ==
    \/ tag[table][pair] > 0
    \/ \E k \in PendingTags(tx[w], table) : tx[w].tags[k][2] = pair

(* COMMIT: the pending writes of t become committed rows. *)
CommittedTbl(t) ==
    [table \in EntityTables |->
        LET kept == {id \in DOMAIN tbl[table] : <<table, id>> \notin t.del}
            added == {r \in t.ins : r[1] = table}
        IN  [id \in kept \cup {r[2] : r \in added} |->
                IF \E r \in added : r[2] = id
                THEN (CHOOSE r \in added : r[2] = id)[3]
                ELSE tbl[table][id]]]

CommittedTag(t) ==
    [table \in TagTables |->
        [pair \in Pairs |->
            IF <<table, pair>> \in t.del THEN 0
            ELSE tag[table][pair]
                   + Cardinality({k \in PendingTags(t, table) : t.tags[k][2] = pair})]]

(* tx.Rollback(): drops the pending writes of an open transaction; on a    *)
(* transaction that is committed or rolled back already it does nothing    *)
(* (sql.ErrTxDone).                                                        *)
NoRollback(t) == t
Rollback(t) ==
    IF t.st = "open" THEN [NoTx EXCEPT !.st = "rolledback"] ELSE t

(* Rows of a table in primary-key order, as rows.Next() delivers them. *)
RECURSIVE RowsInOrder(_, _)
RowsInOrder(rows, ids) ==
    IF ids = {} THEN <<>>
    ELSE LET m == CHOOSE x \in ids : \A y \in ids : x <= y
         IN  <<rows[m]>> \o RowsInOrder(rows, ids \ {m})

---------------------------------------------------------------------------
(* The store outlives the server: at start it holds what earlier runs left *)
(* in it, rows t with counters a.  The clients go on to issue n requests.  *)
NoTags == [table \in TagTables |-> [pair \in Pairs |-> 0]]

InitWithTags(t, g, a, n) ==
    /\ tbl = t
    /\ tag = g
    /\ autoInc = a
    /\ lastInsertId = [w \in Workers |-> 0]
    /\ files = <<>>
    /\ openRows = 0
    /\ pc = [w \in Workers |-> "idle"]
    /\ req = [w \in Workers |-> NoRequest]
    /\ tx = [w \in Workers |-> NoTx]
    /\ loc = [w \in Workers |-> NoLocals]
    /\ resp = [w \in Workers |-> NoResponse]
    /\ logged = [w \in Workers |-> {}]
    /\ created = [table \in EntityTables |-> <<>>]
    /\ deleted = [table \in EntityTables |-> <<>>]
    /\ delIssued = [table \in EntityTables |-> {}]
    /\ obs = [w \in Workers |-> NoObs]
    /\ nreq = n

InitWith(t, a, n) == InitWithTags(t, NoTags, a, n)

EmptyTables == [table \in EntityTables |-> <<>>]

(* A fresh database. *)
Init == InitWith(EmptyTables, [table \in EntityTables |-> 1], MaxRequests)

---------------------------------------------------------------------------
(* Pieces the handlers share. *)

Issue(w, r) ==
    /\ pc[w] \in {"idle", "done"}
    /\ nreq > 0
    /\ req' = [req EXCEPT ![w] = r]
    /\ nreq' = nreq - 1

Set(w, p, t, l, r) ==
    /\ pc' = [pc EXCEPT ![w] = p]
    /\ tx' = [tx EXCEPT ![w] = t]
    /\ loc' = [loc EXCEPT ![w] = l]
    /\ resp' = [resp EXCEPT ![w] = r]

Log(w, msgs) == logged' = [logged EXCEPT ![w] = @ \cup msgs]

(* The handler returns: its deferred tx.Rollback() runs on transaction t. *)
Return(w, t, l, status, body) ==
    Set(w, "done", Rollback(t), l, Response(status, body))

(* if err := c.Bind(&x); err != nil { c.Logger().Errorf("Bind error: ...") } *)
(* The handler goes on with whatever Bind left in x.                       *)
BindErrorLog(body) == IF body.ok THEN {} ELSE {"Bind error"}
(* postEvent: the branch taken on a Bind error is empty. *)
BindErrorIgnored(body) == {}

(* tx, err := db.Beginx(); if err != nil { log; return 500 }; defer tx.Rollback() *)
Beginx(w, o, next, msgs) ==
    /\ FreeConn
    /\ logged' = [logged EXCEPT ![w] = msgs \cup IF o = "ok" THEN {} ELSE {"db error"}]
    /\ IF o = "ok"
       THEN Set(w, next, OpenTx, NoLocals, NoResponse)
       ELSE Set(w, "done", NoTx, [NoLocals EXCEPT !.fault = TRUE],
                Response(StatusInternalServerError, Empty))

(* The answer to a failed tx.Exec: 409 for MySQL error 1062, else 500. *)
ExecErrorAlways500(o, dupText) == Response(StatusInternalServerError, Empty)
ExecError(o, dupText) ==
    IF ErrorNumber(o) = mysqlErrNumDuplicateEntry
    THEN Response(StatusConflict, Text(dupText))
    ELSE Response(StatusInternalServerError, Empty)

ExecFails(w, o, dupText) ==
    /\ Log(w, IF o = "dup" THEN {} ELSE {"db error"})
    /\ Return(w, tx[w], [loc[w] EXCEPT !.fault = (o # "dup")],
              ExecError(o, dupText).status, ExecError(o, dupText).body)

(* The row an INSERT stores for the fields given, under the generated id. *)
RowOf(table, id, f) ==
    CASE table = "events" ->
            [event_id |-> id, account_id |-> DefaultAccountId, title |-> f.title,
             description |-> f.description,
             event_date |-> NumberToDatetime(f.event_date).dt]
      [] table = "persons" ->
            [person_id |-> id, first_name |-> f.first_name, last_name |-> f.last_name]
      [] table = "images" ->
            [image_id |-> id, image_name |-> f.image_name, mime_type |-> f.mime_type]

(* In strict SQL mode a number that is no date is refused (error 1292). *)
StoreAccepts(table, f) ==
    table = "events" => NumberToDatetime(f.event_date).ok

(* A unique key of an entity table, if the schema has one, can only be     *)
(* violated by a row that carries the same fields.                         *)
SameFields(table, id, f) ==
    RowOf(table, id, f) = tbl[table][id]
MayViolateUniqueKey(table, f) ==
    \E id \in DOMAIN tbl[table] : SameFields(table, id, f)

InsertAnswers(table, f) ==
    {"err"} \cup (IF StoreAccepts(table, f) /\ autoInc[table] <= MaxId THEN {"ok"} ELSE {})
            \cup (IF MayViolateUniqueKey(table, f) THEN {"dup"} ELSE {})

(* tx.Exec("INSERT INTO <table> (<id>, ...) VALUES (default, ...)") *)
Insert(w, table, f, dupText, next) ==
    \E o \in InsertAnswers(table, f) :
        /\ IF o = "ok"
           THEN LET id == autoInc[table]
                IN  /\ autoInc' = [autoInc EXCEPT ![table] = id + 1]
                    /\ lastInsertId' = [lastInsertId EXCEPT ![w] = id]
                    /\ Set(w, next,
                           [tx[w] EXCEPT !.ins = @ \cup {<<table, id, RowOf(table, id, f)>>}],
                           loc[w], resp[w])
                    /\ obs' = [obs EXCEPT ![w].inserted = id]
                    /\ UNCHANGED logged
           ELSE /\ UNCHANGED <<autoInc, lastInsertId, obs>>
                /\ ExecFails(w, o, dupText)
        /\ UNCHANGED <<tbl, tag, files, openRows, req, created, deleted, delIssued, nreq>>

(* SELECT LAST_INSERT_ID() on the transaction's own connection. *)
LastInsertIdOfTable(w, table) == autoInc[table] - 1
LastInsertId(w, table) == lastInsertId[w]

(* err = tx.Get(&id, "SELECT LAST_INSERT_ID()") *)
SelectLastInsertId(w, table, next) ==
    \E o \in Fails :
        /\ IF o = "ok"
           THEN /\ Set(w, next, tx[w], [loc[w] EXCEPT !.id = LastInsertId(w, table)], resp[w])
                /\ obs' = [obs EXCEPT ![w].raced = (LastInsertIdOfTable(w, table) # lastInsertId[w])]
                /\ UNCHANGED logged
           ELSE /\ ExecFails(w, o, "")
                /\ UNCHANGED obs
        /\ UNCHANGED <<storeVars, req, created, deleted, delIssued, nreq>>

(* err = tx.Commit(): on success the pending writes are committed; a       *)
(* Commit that fails leaves the transaction aborted.                       *)
Commit(w, o) ==
    IF o = "ok"
    THEN /\ tbl' = CommittedTbl(tx[w])
         /\ tag' = CommittedTag(tx[w])
    ELSE UNCHANGED <<tbl, tag>>

CommittedTx == [NoTx EXCEPT !.st = "committed"]
AbortedTx == [NoTx EXCEPT !.st = "rolledback"]

CommitFails(w) ==
    /\ Log(w, {"db error"})
    /\ Return(w, AbortedTx, [loc[w] EXCEPT !.fault = TRUE],
              StatusInternalServerError, Empty)

(* tx.Commit() and the 201 answer {"<key>": id} of a create handler. *)
CommitCreate(w, table, key, f) ==
    \E o \in Fails :
        /\ Commit(w, o)
        /\ IF o = "ok"
           THEN /\ Return(w, CommittedTx, loc[w], StatusCreated, Json(<<key, loc[w].id>>))
                /\ created' = [created EXCEPT ![table] = (loc[w].id :> f) @@ @]
                /\ deleted' = [deleted EXCEPT ![table] =
                                 [id \in DOMAIN @ |-> @[id] \/ id \in {r[2] : r \in tx[w].ins}]]
                /\ UNCHANGED logged
           ELSE /\ CommitFails(w)
                /\ UNCHANGED <<created, deleted>>
        /\ UNCHANGED <<autoInc, lastInsertId, files, openRows, req, delIssued, obs, nreq>>


(* What is known about id of table when a request reads the store. *)
Observed(table, id) ==
    [NoObs EXCEPT
        !.made = id \in DOMAIN created[table],
        !.fields = IF id \in DOMAIN created[table] THEN created[table][id] ELSE <<>>,
        !.delIssued = id \in delIssued[table],
        !.deleted = id \in DOMAIN deleted[table],
        !.revived = id \in DOMAIN deleted[table] /\ deleted[table][id],
        !.found = id \in DOMAIN tbl[table]]

Observe(w, table, id) == obs' = [obs EXCEPT ![w] = Observed(table, id)]

(* db.Get(&x, "SELECT * FROM <table> WHERE <id> = ?", id): one row,        *)
(* sql.ErrNoRows, or another error.                                        *)
GetAnswer(table, id, o) ==
    IF o # "ok" THEN "err"
    ELSE IF id \in DOMAIN tbl[table] THEN "row" ELSE "norows"

(* fmt.Sprintf("/images/%d.png", image.ImageId) *)
ImagePath(id) == <<"/images/", id, ".png">>
ImageAndPath(image) ==
    [ImagePath |-> ImagePath(image.image_id), image_id |-> image.image_id,
     image_name |-> image.image_name, mime_type |-> image.mime_type]

(* The body of getPerson and getImage: one db.Get and the answer. *)
Get(w, op, table, notFound) ==
    \E id \in Ids, o \in Fails :
        /\ Issue(w, Request(op, id, NoBody, NoFile))
        /\ FreeConn
        /\ Observe(w, table, id)
        /\ LET a == GetAnswer(table, id, o)
           IN  /\ logged' = [logged EXCEPT ![w] = IF a = "err" THEN {"db error"} ELSE {}]
               /\ Set(w, "done", NoTx, [NoLocals EXCEPT !.fault = (a = "err")],
                      CASE a = "row" ->
                              Response(StatusOK,
                                       Json(IF table = "images"
                                            THEN ImageAndPath(tbl[table][id])
                                            ELSE tbl[table][id]))
                        [] a = "norows" -> Response(StatusNotFound, Text(notFound))
                        [] a = "err" -> Response(StatusInternalServerError, Empty))
        /\ UNCHANGED <<storeVars, created, deleted, delIssued>>

---------------------------------------------------------------------------
(* POST /api/persons *)
postPerson(w) ==
    \/ \E b \in PersonBodies, o \in Fails :
        /\ Issue(w, Request("postPerson", 0, b, NoFile))
        /\ Beginx(w, o, "postPerson:insert", BindErrorLog(b) \cup {"info"})
        /\ obs' = [obs EXCEPT ![w] = NoObs]
        /\ UNCHANGED <<storeVars, created, deleted, delIssued>>
    \/ /\ pc[w] = "postPerson:insert"
       /\ Insert(w, "persons", req[w].body.val, "duplicated: person", "postPerson:lastid")
    \/ /\ pc[w] = "postPerson:lastid"
       /\ SelectLastInsertId(w, "persons", "postPerson:commit")
    \/ /\ pc[w] = "postPerson:commit"
       /\ CommitCreate(w, "persons", "PersonID", req[w].body.val)

(* GET /api/persons/{person_id} *)
getPerson(w) == Get(w, "getPerson", "persons", "not found: person")

(* The rows of other tables the schema drops with row id of table: the     *)
(* tagging tables declare no cascading foreign key.                        *)
OnDeleteCascade(table, id) == {}

DeletedNothing(w, table, id) == tx[w]
DeletedWithTags(w, table, id) ==
    [tx[w] EXCEPT !.del = @ \cup {<<table, id>>}
                            \cup {<<t, p>> : t \in TagTables,
                                             p \in {q \in Pairs : id \in {q[1], q[2]}}}]
(* tx.Exec("DELETE FROM <table> WHERE <id> = ?", id) *)
DeletedFrom(w, table, id) ==
    [tx[w] EXCEPT !.del = @ \cup {<<table, id>>} \cup OnDeleteCascade(table, id)]

(* The body of deleteEvent, deletePerson and deleteImage after Beginx:     *)
(* tx.Exec("DELETE FROM <table> WHERE <id> = ?"), tx.Commit(), 204.        *)
Delete(w, op, table) ==
    \/ \E id \in Ids, o \in Fails :
        /\ Issue(w, Request(op, id, NoBody, NoFile))
        /\ Beginx(w, o, op \o ":delete", {})
        /\ delIssued' = [delIssued EXCEPT ![table] = @ \cup {id}]
        /\ Observe(w, table, id)
        /\ UNCHANGED <<storeVars, created, deleted>>
    \/ /\ pc[w] = op \o ":delete"
       /\ \E o \in Fails :
            /\ IF o = "ok"
               THEN /\ ~RowLocked(w, table, req[w].id)
                    /\ Set(w, op \o ":commit", DeletedFrom(w, table, req[w].id),
                           loc[w], resp[w])
                    /\ UNCHANGED logged
               ELSE ExecFails(w, o, "")
            /\ UNCHANGED <<storeVars, req, historyVars>>
    \/ /\ pc[w] = op \o ":commit"
       /\ \E o \in Fails :
            /\ Commit(w, o)
            /\ IF o = "ok"
               THEN /\ Return(w, CommittedTx, loc[w], StatusNoContent, Empty)
                    /\ deleted' = [deleted EXCEPT ![table] = (req[w].id :> FALSE) @@ @]
                    /\ UNCHANGED logged
               ELSE /\ CommitFails(w)
                    /\ UNCHANGED deleted
            /\ UNCHANGED <<autoInc, lastInsertId, files, openRows, req, created, delIssued,
                           obs, nreq>>

(* DELETE /api/persons/{person_id} *)
deletePerson(w) == Delete(w, "deletePerson", "persons")

---------------------------------------------------------------------------
(* POST /api/events *)
postEvent(w) ==
    \/ \E b \in EventBodies, o \in Fails :
        /\ Issue(w, Request("postEvent", 0, b, NoFile))
        /\ Beginx(w, o, "postEvent:insert", BindErrorIgnored(b) \cup {"info"})
        /\ obs' = [obs EXCEPT ![w] = NoObs]
        /\ UNCHANGED <<storeVars, created, deleted, delIssued>>
    \/ /\ pc[w] = "postEvent:insert"
       /\ Insert(w, "events", req[w].body.val, "duplicated: event", "postEvent:lastid")
    \/ /\ pc[w] = "postEvent:lastid"
       /\ SelectLastInsertId(w, "events", "postEvent:commit")
    \/ /\ pc[w] = "postEvent:commit"
       /\ CommitCreate(w, "events", "EventID", req[w].body.val)

(* DELETE /api/events/{event_id} *)
deleteEvent(w) == Delete(w, "deleteEvent", "events")

(* select * from <table> where <id> in (select distinct(<id>) from         *)
(* <tagging> where event_id = ?), read with rows.Next()/rows.StructScan.   *)
TaggedRows(table, tagging, eventID) ==
    RowsInOrder(tbl[table],
                {id \in DOMAIN tbl[table] : tag[tagging][<<eventID, id>>] > 0})

(* rows, err := db.Queryx(...); for rows.Next() { err := rows.StructScan(&x); *)
(* if err != nil { log; return 500 }; list = append(list, x) }                *)
(* "ok":   every row is scanned; the last rows.Next() finds the end and       *)
(*         closes rows, which gives the connection back.                      *)
(* "err":  Queryx fails: no rows, no connection kept.                         *)
(* "cut":  rows.Next() fails after k rows: it closes rows and returns false,  *)
(*         and the handler, which never reads rows.Err(), goes on with the k  *)
(*         rows it has.                                                       *)
(* "scan": rows.StructScan fails on a row: the handler returns, and rows is   *)
(*         neither closed nor read to its end.                                *)
QueryAnswers(rows) ==
    {"ok", "err"} \cup (IF rows = <<>> THEN {} ELSE {"cut", "scan"})
Cuts(rows, o) == IF o = "cut" THEN 0 .. (Len(rows) - 1) ELSE {0}
Scanned(rows, o, k) == IF o = "cut" THEN SubSeq(rows, 1, k) ELSE rows
LeftOpen(o) == IF o = "scan" THEN 1 ELSE 0

QueryFails(w, o) ==
    /\ Log(w, IF o = "scan" THEN {"failed to purse query responce"}
              ELSE {"failed to query"})
    /\ Set(w, "done", tx[w], [loc[w] EXCEPT !.fault = TRUE],
           Response(StatusInternalServerError, Empty))

RECURSIVE WithPaths(_)
WithPaths(images) ==
    IF images = <<>> THEN <<>>
    ELSE <<ImageAndPath(Head(images))>> \o WithPaths(Tail(images))

EventDatail(event, persons, images) ==
    [event |-> event, persons |-> persons, images |-> images]

(* return c.JSON(http.StatusOK, res) *)
EventDetailUnlessEmpty(event, persons, images) ==
    IF persons = <<>> \/ images = <<>>
    THEN Response(StatusNotFound, Text("not found: event"))
    ELSE Response(StatusOK, Json(EventDatail(event, persons, images)))
EventDetailAnswer(event, persons, images) ==
    Response(StatusOK, Json(EventDatail(event, persons, images)))

(* GET /api/events/{event_id}: the event, then its persons, then its images *)
getEvent(w) ==
    \/ \E id \in Ids, o \in Fails :
        /\ Issue(w, Request("getEvent", id, NoBody, NoFile))
        /\ FreeConn
        /\ Observe(w, "events", id)
        /\ LET a == GetAnswer("events", id, o)
           IN  /\ logged' = [logged EXCEPT ![w] = IF a = "err" THEN {"db error"} ELSE {}]
               /\ CASE a = "row" ->
                        Set(w, "getEvent:persons", NoTx,
                            [NoLocals EXCEPT !.event = tbl["events"][id]], NoResponse)
                    [] a = "norows" ->
                        Set(w, "done", NoTx, NoLocals,
                            Response(StatusNotFound, Text("not found: event")))
                    [] a = "err" ->
                        Set(w, "done", NoTx, [NoLocals EXCEPT !.fault = TRUE],
                            Response(StatusInternalServerError, Empty))
        /\ UNCHANGED <<storeVars, created, deleted, delIssued>>
    \/ /\ pc[w] = "getEvent:persons"
       /\ FreeConn
       /\ LET rows == TaggedRows("persons", "event_person_tagging", req[w].id)
          IN  \E o \in QueryAnswers(rows) : \E k \in Cuts(rows, o) :
                /\ IF o \in {"ok", "cut"}
                   THEN /\ Set(w, "getEvent:images", tx[w],
                               [loc[w] EXCEPT !.persons = Scanned(rows, o, k),
                                              !.fault = @ \/ o = "cut"],
                               resp[w])
                        /\ UNCHANGED logged
                   ELSE QueryFails(w, o)
                /\ openRows' = openRows + LeftOpen(o)
       /\ UNCHANGED <<dataVars, req, historyVars>>
    \/ /\ pc[w] = "getEvent:images"
       /\ FreeConn
       /\ LET rows == TaggedRows("images", "event_image_tagging", req[w].id)
          IN  \E o \in QueryAnswers(rows) : \E k \in Cuts(rows, o) :
                /\ IF o \in {"ok", "cut"}
                   THEN LET images == WithPaths(Scanned(rows, o, k))
                        IN  /\ Set(w, "done", tx[w],
                                   [loc[w] EXCEPT !.images = images,
                                                  !.fault = @ \/ o = "cut"],
                                   EventDetailAnswer(loc[w].event, loc[w].persons, images))
                            /\ UNCHANGED logged
                   ELSE QueryFails(w, o)
                /\ openRows' = openRows + LeftOpen(o)
       /\ UNCHANGED <<dataVars, req, historyVars>>

---------------------------------------------------------------------------
(* if size > 1000000 { return 400 "file exceed 1MByte" } *)
TooLargeFrom(size) == size >= MaxUploadSize
TooLarge(size) == size > MaxUploadSize

ImageFields(file) == [image_name |-> file.name, mime_type |-> file.mime]

(* os.Create(<imagesPath>/<id>.png), then io.Copy(dst, src): Create can    *)
(* fail; Copy can fail and leave part of the file; with src nil, because   *)
(* file.Open() failed and its error was dropped, Copy panics and the       *)
(* Recover middleware answers 500.                                         *)
SaveAnswers(file) ==
    {"create"} \cup (IF file.opens THEN {"ok", "copy"} ELSE {"panic"})

(* POST /api/images *)
uploadImage(w) ==
    \/ \E f \in Uploads, o \in Fails :
        /\ Issue(w, Request("uploadImage", 0, NoBody, f))
        /\ obs' = [obs EXCEPT ![w] = NoObs]
        /\ IF ~f.present
           THEN /\ o = "ok"
                /\ logged' = [logged EXCEPT ![w] = {}]
                /\ Set(w, "done", NoTx, NoLocals,
                       Response(StatusBadRequest, Text("file missing")))
           ELSE IF TooLarge(f.size)
           THEN /\ o = "ok"
                /\ logged' = [logged EXCEPT ![w] = {}]
                /\ Set(w, "done", NoTx, NoLocals,
                       Response(StatusBadRequest, Text("file exceed 1MByte")))
           ELSE Beginx(w, o, "uploadImage:insert", {})
        /\ UNCHANGED <<storeVars, created, deleted, delIssued>>
    \/ /\ pc[w] = "uploadImage:insert"
       /\ Insert(w, "images", ImageFields(req[w].file), "duplicated: image",
                 "uploadImage:lastid")
    \/ /\ pc[w] = "uploadImage:lastid"
       /\ SelectLastInsertId(w, "images", "uploadImage:save")
    \/ /\ pc[w] = "uploadImage:save"
       /\ \E o \in SaveAnswers(req[w].file) :
            /\ files' = IF o = "create" THEN files
                        ELSE (loc[w].id :> (IF o = "ok" THEN "full" ELSE "partial")) @@ files
            /\ IF o = "ok"
               THEN /\ Set(w, "uploadImage:commit", tx[w], loc[w], resp[w])
                    /\ UNCHANGED logged
               ELSE /\ Log(w, CASE o = "create" -> {"cant open file"}
                                [] o = "copy" -> {"cant save file"}
                                [] o = "panic" -> {"panic recovered"})
                    /\ Return(w, tx[w], [loc[w] EXCEPT !.fault = TRUE],
                              StatusInternalServerError,
                              IF o = "panic" THEN Json(<<"message", "Internal Server Error">>)
                              ELSE Empty)
            /\ UNCHANGED <<tbl, tag, autoInc, lastInsertId, openRows, req, historyVars>>
    \/ /\ pc[w] = "uploadImage:commit"
       /\ CommitCreate(w, "images", "ImageID", ImageFields(req[w].file))

(* GET /api/images/{image_id} *)
getImage(w) == Get(w, "getImage", "images", "not found: image")

(* DELETE /api/images/{image_id} *)
deleteImage(w) == Delete(w, "deleteImage", "images")

---------------------------------------------------------------------------
(* The body of bindEventPersons and bindEventImages: one INSERT into the   *)
(* tagging table per element of the list, in order, then tx.Commit().      *)
AfterInsert(list, i) ==
    IF i < Len(list) THEN ":insert" ELSE ":commit"

(* if err != nil { 409 "duplicated: bind" for error 1062, else log and 500 } *)
BindInsertSkips(w, op, o) ==
    IF o = "dup"
    THEN /\ Set(w, op \o AfterInsert(req[w].body.val, loc[w].i), tx[w],
                [loc[w] EXCEPT !.i = @ + 1], resp[w])
         /\ UNCHANGED logged
    ELSE ExecFails(w, o, "duplicated: bind")
BindInsertFails(w, op, o) == ExecFails(w, o, "duplicated: bind")

Bind(w, op, tagging) ==
    \/ \E e \in Ids, b \in ListBodies, o \in Fails :
        /\ Issue(w, Request(op, e, b, NoFile))
        /\ Beginx(w, o, op \o AfterInsert(b.val, 0), BindErrorLog(b) \cup {"info"})
        /\ obs' = [obs EXCEPT ![w] =
                     [Observed("events", e) EXCEPT
                        !.bound = {<<e, b.val[k]>> : k \in {j \in 1 .. Len(b.val) :
                                                              tag[tagging][<<e, b.val[j]>>] > 0}}]]
        /\ UNCHANGED <<storeVars, created, deleted, delIssued>>
    \/ /\ pc[w] = op \o ":insert"
       /\ LET i == loc[w].i
              pair == <<req[w].id, req[w].body.val[i]>>
          IN  \E o \in Fails :
                /\ IF o = "err"
                   THEN BindInsertFails(w, op, "err")
                   ELSE /\ ~PairLocked(w, tagging, pair)
                        /\ IF IsDuplicate(w, tagging, pair)
                           THEN BindInsertFails(w, op, "dup")
                           ELSE /\ Set(w, op \o AfterInsert(req[w].body.val, i),
                                       [tx[w] EXCEPT !.tags = Append(@, <<tagging, pair>>)],
                                       [loc[w] EXCEPT !.i = i + 1], resp[w])
                                /\ UNCHANGED logged
                /\ UNCHANGED <<storeVars, req, historyVars>>
    \/ /\ pc[w] = op \o ":commit"
       /\ \E o \in Fails :
            /\ Commit(w, o)
            /\ IF o = "ok"
               THEN /\ Return(w, CommittedTx, loc[w], StatusNoContent, Empty)
                    /\ UNCHANGED logged
               ELSE CommitFails(w)
            /\ UNCHANGED <<autoInc, lastInsertId, files, openRows, req, historyVars>>

(* POST /api/events/{event_id}/persons *)
bindEventPersons(w) == Bind(w, "bindEventPersons", "event_person_tagging")

(* POST /api/events/{event_id}/images *)
bindEventImages(w) == Bind(w, "bindEventImages", "event_image_tagging")

---------------------------------------------------------------------------
(* The list handlers: accounts, getEventList, getPersonList, getImageList. *)

(* The query parameters limit and offset: absent, or a number. *)
Params == {<<>>, <<1>>}
Query(limit, offset) == [ok |-> TRUE, val |-> <<limit, offset>>]

(* No handler writes the accounts table. *)
Accounts ==
    <<[account_id |-> 1, login_name |-> "admin", shadow_password |-> "x"]>>

(* "select ... from <table>" + " limit " + limit + " offset " + offset:    *)
(* MySQL takes an OFFSET only after a LIMIT.                               *)
QueryParses(limit, offset) == offset = <<>> \/ limit # <<>>
Selected(all, limit, offset) ==
    LET from == IF offset = <<>> THEN 1 ELSE offset[1] + 1
        upto == IF limit = <<>> THEN Len(all)
                ELSE IF from + limit[1] - 1 < Len(all) THEN from + limit[1] - 1
                ELSE Len(all)
    IN  SubSeq(all, from, upto)

(* getEventList selects event_id, title, description, event_date into an   *)
(* Event: its AccountID keeps the zero value.                              *)
RECURSIVE WithoutAccount(_)
WithoutAccount(events) ==
    IF events = <<>> THEN <<>>
    ELSE <<[Head(events) EXCEPT !.account_id = 0]>> \o WithoutAccount(Tail(events))

RowsOf(op) ==
    CASE op = "accounts" -> Accounts
      [] op = "getEventList" -> RowsInOrder(tbl["events"], DOMAIN tbl["events"])
      [] op = "getPersonList" -> RowsInOrder(tbl["persons"], DOMAIN tbl["persons"])
      [] op = "getImageList" -> RowsInOrder(tbl["images"], DOMAIN tbl["images"])

ListOf(op, rows) ==
    CASE op = "getEventList" -> WithoutAccount(rows)
      [] op = "getImageList" -> WithPaths(rows)
      [] OTHER -> rows

(* The body of a list handler: the query parameters, one db.Queryx, the    *)
(* loop over its rows, 200 with the list.                                  *)
List(w, op, params) ==
    \/ \E limit \in params, offset \in params :
        /\ Issue(w, Request(op, 0, Query(limit, offset), NoFile))
        /\ Set(w, op \o ":query", NoTx, NoLocals, NoResponse)
        /\ logged' = [logged EXCEPT ![w] = {}]
        /\ obs' = [obs EXCEPT ![w] = NoObs]
        /\ UNCHANGED <<storeVars, created, deleted, delIssued>>
    \/ /\ pc[w] = op \o ":query"
       /\ FreeConn
       /\ LET limit == req[w].body.val[1]
              offset == req[w].body.val[2]
              rows == Selected(RowsOf(op), limit, offset)
          IN  \E o \in IF QueryParses(limit, offset) THEN QueryAnswers(rows) ELSE {"err"} :
              \E k \in Cuts(rows, o) :
                /\ IF o \in {"ok", "cut"}
                   THEN /\ Set(w, "done", tx[w], [loc[w] EXCEPT !.fault = (o = "cut")],
                               Response(StatusOK, Json(ListOf(op, Scanned(rows, o, k)))))
                        /\ UNCHANGED logged
                   ELSE QueryFails(w, o)
                /\ openRows' = openRows + LeftOpen(o)
       /\ UNCHANGED <<dataVars, req, historyVars>>

(* GET /api/accounts: no limit, no offset *)
accounts(w) == List(w, "accounts", {<<>>})
(* GET /api/events *)
getEventList(w) == List(w, "getEventList", Params)
(* GET /api/persons *)
getPersonList(w) == List(w, "getPersonList", Params)
(* GET /api/images *)
getImageList(w) == List(w, "getImageList", Params)

---------------------------------------------------------------------------
(* Create, read and delete of the three entities. *)
Next ==
    \E w \in Workers :
        \/ postEvent(w) \/ getEvent(w) \/ deleteEvent(w)
        \/ postPerson(w) \/ getPerson(w) \/ deletePerson(w)
        \/ uploadImage(w) \/ getImage(w) \/ deleteImage(w)

Spec == Init /\ [][Next]_vars

(* The tagging of events in a database that holds event 1, every person   *)
(* and image 1.                                                            *)
SeededTables ==
    [table \in EntityTables |->
        CASE table = "events" -> (1 :> RowOf("events", 1, NewYear))
          [] table = "persons" -> [id \in Ids |-> RowOf("persons", id, AdaLovelace)]
          [] table = "images" ->
                (1 :> RowOf("images", 1, [image_name |-> "a.jpg", mime_type |-> "image/jpeg"]))]

InitTagging ==
    InitWith(SeededTables, [table \in EntityTables |-> MaxId + 1], MaxTagRequests)

NextTagging ==
    \E w \in Workers :
        getEvent(w) \/ bindEventPersons(w) \/ bindEventImages(w)

SpecTagging == InitTagging /\ [][NextTagging]_vars

(* The handlers that read with db.Queryx, in a database that holds event 1 *)
(* tagged with person 1 and image 1.                                       *)
SeededTags ==
    [table \in TagTables |-> [pair \in Pairs |-> IF pair = <<1, 1>> THEN 1 ELSE 0]]

InitPool ==
    InitWithTags(SeededTables, SeededTags, [table \in EntityTables |-> MaxId + 1],
                 MaxPoolRequests)

NextPool ==
    \E w \in Workers :
        \/ accounts(w) \/ getEventList(w) \/ getPersonList(w) \/ getImageList(w)
        \/ getEvent(w)

SpecPool == InitPool /\ [][NextPool]_vars

(* Every handler that writes, on a fresh database. *)
InitWrites ==
    InitWith(EmptyTables, [table \in EntityTables |-> 1], MaxWriteRequests)

NextWrites ==
    \E w \in Workers :
        \/ postEvent(w) \/ deleteEvent(w)
        \/ postPerson(w) \/ deletePerson(w)
        \/ uploadImage(w) \/ deleteImage(w)
        \/ bindEventPersons(w) \/ bindEventImages(w)

SpecWrites == InitWrites /\ [][NextWrites]_vars


---------------------------------------------------------------------------
(* Vocabulary of the properties. *)

Gets == {"getEvent", "getPerson", "getImage"}
Creates == {"postEvent", "postPerson", "uploadImage"}
Deletes == {"deleteEvent", "deletePerson", "deleteImage"}
Binds == {"bindEventPersons", "bindEventImages"}
Decoders == {"postEvent", "postPerson"} \cup Binds
Writes == Creates \cup Deletes \cup Binds

TableOf(op) ==
    CASE op \in {"getEvent", "postEvent", "deleteEvent"} -> "events"
      [] op \in {"getPerson", "postPerson", "deletePerson"} -> "persons"
      [] op \in {"getImage", "uploadImage", "deleteImage"} -> "images"
      [] op = "bindEventPersons" -> "event_person_tagging"
      [] op = "bindEventImages" -> "event_image_tagging"

Done(w) == pc[w] = "done"
Handler(w) == <<pc[w], req[w], tx[w], loc[w], resp[w]>>
(* The step is worker w's: no other worker's handler moves in it. *)
Stepped(w) == \A v \in Workers \ {w} : Handler(v)' = Handler(v)
Returns(w) == Stepped(w) /\ pc[w] # "done" /\ pc'[w] = "done"
Starts(w) == Stepped(w) /\ nreq' < nreq

(* The fields of the entity a get answered with, as create takes them;     *)
(* event_date is the time.Time as seconds since the epoch.                 *)
ReturnedFields(w) ==
    LET v == resp[w].body.v
    IN  CASE req[w].op = "getPerson" ->
                [first_name |-> v.first_name, last_name |-> v.last_name]
          [] req[w].op = "getImage" ->
                [image_name |-> v.image_name, mime_type |-> v.mime_type]
          [] req[w].op = "getEvent" ->
                [title |-> v.event.title, description |-> v.event.description,
                 event_date |-> Unix(v.event.event_date)]

(* A get of an id that a create had returned and no delete was issued for. *)
GetOfCreated(w) ==
    /\ Done(w) /\ req[w].op \in Gets
    /\ obs[w].made /\ ~obs[w].delIssued /\ ~loc[w].fault

(* C1: a successful create followed by a get of the returned id, with no   *)
(* delete of that id in between, answers 200 with fields equal to the      *)
(* fields given to create, for events, persons and images.                 *)
CreateThenGet ==
    \A w \in Workers :
        GetOfCreated(w) =>
            /\ resp[w].status = StatusOK
            /\ ReturnedFields(w) = obs[w].fields

(* What does hold of C1: persons and images come back as given; an event   *)
(* comes back with its title and description, and with the date MySQL read *)
(* from the digits of event_date.                                          *)
CreateThenGetStored ==
    \A w \in Workers :
        GetOfCreated(w) =>
            /\ resp[w].status = StatusOK
            /\ IF req[w].op = "getEvent"
               THEN LET e == resp[w].body.v.event
                    IN  /\ e.title = obs[w].fields.title
                        /\ e.description = obs[w].fields.description
                        /\ e.event_date = NumberToDatetime(obs[w].fields.event_date).dt
               ELSE ReturnedFields(w) = obs[w].fields

CreateThenGetWitness ==
    \E w \in Workers : GetOfCreated(w) /\ req[w].op = "getEvent"

(* C2 as stated: after a delete of id answered 204, a get of id issued     *)
(* afterwards answers 404, whatever else happened.                         *)
DeleteThenGetAlways ==
    \A w \in Workers :
        (Done(w) /\ req[w].op \in Gets /\ obs[w].deleted /\ ~loc[w].fault)
            => resp[w].status = StatusNotFound

(* C2, amended: after a delete of id answered 204, a get of id issued      *)
(* afterwards never answers 200, and answers 404 when its query works,     *)
(* unless a create has committed a row under id since the delete.          *)
DeleteThenGet ==
    \A w \in Workers :
        (Done(w) /\ req[w].op \in Gets /\ obs[w].deleted /\ ~obs[w].revived)
            => /\ resp[w].status # StatusOK
               /\ ~loc[w].fault => resp[w].status = StatusNotFound

DeleteThenGetWitness ==
    \E w \in Workers :
        /\ Done(w) /\ req[w].op \in Gets
        /\ obs[w].made /\ obs[w].deleted /\ ~obs[w].revived
        /\ resp[w].status = StatusNotFound

---------------------------------------------------------------------------
(* The tagging table with one more row <<e, x>> for every x of list. *)
WithRows(table, e, list) ==
    [tag EXCEPT ![table] =
        [pair \in Pairs |->
            @[pair] + Cardinality({k \in 1 .. Len(list) : <<e, list[k]>> = pair})]]

(* C3: a bind is all or nothing.  Until it answers, and when it answers    *)
(* with an error (409 or 500), the tagging tables are as they were and the *)
(* rows it had inserted are dropped; when it answers 204, exactly one row  *)
(* per listed id has been added.                                           *)
BindAllOrNothing ==
    [][\A w \in Workers :
        (Stepped(w) /\ req'[w].op \in Binds) =>
            IF pc'[w] = "done" /\ resp'[w].status = StatusNoContent
            THEN pc[w] # "done" =>
                    tag' = WithRows(TableOf(req[w].op), req[w].id, req[w].body.val)
            ELSE /\ tag' = tag
                 /\ pc'[w] = "done" =>
                        /\ resp'[w].status \in {StatusConflict, StatusInternalServerError}
                        /\ tx'[w].st # "open"
                        /\ tx'[w].tags = <<>>]_vars

BindAllOrNothingWitness ==
    \E w \in Workers :
        /\ Done(w) /\ req[w].op \in Binds
        /\ resp[w].status = StatusConflict
        /\ loc[w].i = 2
        /\ req[w].body.val[1] # req[w].body.val[2]

(* C4: a bind that lists a pair an earlier bind has committed answers 409  *)
(* "duplicated: bind" (unless a store call of its own fails first), and    *)
(* the row of the earlier bind is still there exactly once; a bind answers *)
(* 409 only for a pair that is bound or listed twice, so the first bind of *)
(* a pair answers 204.                                                     *)
BindTwiceConflicts ==
    \A w \in Workers :
        (Done(w) /\ req[w].op \in Binds) =>
            LET table == TableOf(req[w].op)
                list == req[w].body.val
                i == loc[w].i
            IN  /\ \A pair \in obs[w].bound : tag[table][pair] = 1
                /\ ~loc[w].fault =>
                     /\ resp[w].status \in {StatusNoContent, StatusConflict}
                     /\ obs[w].bound # {} => resp[w].status = StatusConflict
                     /\ resp[w].status = StatusConflict =>
                          /\ resp[w].body = Text("duplicated: bind")
                          /\ i <= Len(list)
                          /\ \/ tag[table][<<req[w].id, list[i]>>] = 1
                             \/ \E j \in 1 .. i - 1 : list[j] = list[i]

BindTwiceWitness ==
    \E w \in Workers :
        /\ Done(w) /\ req[w].op = "bindEventPersons"
        /\ obs[w].bound # {}
        /\ resp[w].status = StatusConflict

(* C5: an upload of more than 1,000,000 bytes is answered 400 "file exceed *)
(* 1MByte" in the step that receives it, with no transaction begun and the *)
(* tables, counters and files untouched; one of exactly 1,000,000 bytes is *)
(* not answered that way.                                                  *)
UploadSizeLimit ==
    [][\A w \in Workers :
        (Starts(w) /\ req'[w].op = "uploadImage" /\ req'[w].file.present) =>
            IF req'[w].file.size > 1000000
            THEN /\ pc'[w] = "done"
                 /\ resp'[w] = Response(StatusBadRequest, Text("file exceed 1MByte"))
                 /\ tx'[w].st = "none"
                 /\ UNCHANGED storeVars
            ELSE resp'[w].body # Text("file exceed 1MByte")]_vars

UploadSizeLimitWitness ==
    \E w \in Workers :
        /\ Done(w) /\ req[w].op = "uploadImage"
        /\ req[w].file.size = 2000000
        /\ resp[w].status = StatusBadRequest

(* No tagging row names event e. *)
Untagged(e) ==
    \A table \in TagTables, x \in Ids : tag[table][<<e, x>>] = 0

(* C6: getEvent answers 404 exactly when its first query finds no event    *)
(* row; when it finds one and its queries work it answers 200 with that    *)
(* event, and for an event no tagging row names, with empty person and     *)
(* image sequences.                                                        *)
GetEventDetail ==
    \A w \in Workers :
        (Done(w) /\ req[w].op = "getEvent") =>
            /\ resp[w].status = StatusNotFound <=> (~obs[w].found /\ ~loc[w].fault)
            /\ (obs[w].found /\ ~loc[w].fault) =>
                    /\ resp[w].status = StatusOK
                    /\ resp[w].body.v.event = loc[w].event
                    /\ loc[w].event.event_id = req[w].id
            /\ (resp[w].status = StatusOK /\ Untagged(req[w].id)) =>
                    /\ resp[w].body.v.persons = <<>>
                    /\ resp[w].body.v.images = <<>>

GetEventDetailWitness ==
    \E w \in Workers :
        /\ Done(w) /\ req[w].op = "getEvent"
        /\ Untagged(req[w].id)
        /\ resp[w].status = StatusOK
        /\ resp[w].body.v.persons = <<>>

(* C7: no step of a delete handler changes a tagging table, a file or a    *)
(* table other than its own, in its own table no row but the one of its    *)
(* id; and it answers 204 whenever its store calls work, row or no row.    *)
DeleteOnlyOwnRow ==
    [][\A w \in Workers :
        (Stepped(w) /\ req'[w].op \in Deletes) =>
            /\ tag' = tag
            /\ files' = files
            /\ \A table \in EntityTables :
                    \A id \in DOMAIN tbl[table] :
                        (table # TableOf(req'[w].op) \/ id # req'[w].id) =>
                            /\ id \in DOMAIN tbl'[table]
                            /\ tbl'[table][id] = tbl[table][id]
            /\ (pc'[w] = "done" /\ ~loc'[w].fault) =>
                    resp'[w].status = StatusNoContent]_vars

DeleteOnlyOwnRowWitness ==
    \E w \in Workers :
        /\ Done(w) /\ req[w].op = "deletePerson"
        /\ ~obs[w].found
        /\ resp[w].status = StatusNoContent
        /\ \E e \in Ids : tag["event_person_tagging"][<<e, req[w].id>>] = 1

(* C8: when a write handler answers with a status that is not 2xx, the     *)
(* step in which it returns leaves every table as it was, and its          *)
(* transaction, if it had begun one, is rolled back with nothing pending;  *)
(* the image row of a failed upload is in no table.                        *)
RollbackOnFailure ==
    [][\A w \in Workers :
        (Returns(w) /\ req[w].op \in Writes /\ ~Is2xx(resp'[w].status)) =>
            /\ tbl' = tbl
            /\ tag' = tag
            /\ tx'[w] \in {NoTx, AbortedTx}
            /\ tx[w].st = "open" => tx'[w] = AbortedTx
            /\ obs[w].inserted # 0 =>
                    obs[w].inserted \notin DOMAIN tbl'[TableOf(req[w].op)]]_vars

RollbackOnFailureWitness ==
    \E w \in Workers :
        /\ Done(w) /\ req[w].op = "uploadImage"
        /\ resp[w].status = StatusInternalServerError
        /\ obs[w].inserted \in DOMAIN files
        /\ tx[w] = AbortedTx

(* C9: the id a create answers with is the id the store generated for the  *)
(* row this request inserted, and no earlier create of the same kind has   *)
(* answered with it.                                                       *)
CreateReturnsOwnId ==
    [][\A w \in Workers :
        (Returns(w) /\ req[w].op \in Creates /\ resp'[w].status = StatusCreated) =>
            /\ resp'[w].body.v[2] = obs[w].inserted
            /\ resp'[w].body.v[2] \notin DOMAIN created[TableOf(req[w].op)]]_vars

CreateReturnsOwnIdWitness ==
    \E w \in Workers :
        /\ Done(w) /\ req[w].op \in Creates
        /\ resp[w].status = StatusCreated
        /\ obs[w].raced

(* C10: in postEvent, postPerson, bindEventPersons and bindEventImages a   *)
(* body that fails to decode is logged as a Bind error and is not answered *)
(* with 400.                                                               *)
BindFailureLoggedNotRejected ==
    \A w \in Workers :
        (req[w].op \in Decoders /\ ~req[w].body.ok) =>
            /\ "Bind error" \in logged[w]
            /\ Done(w) => resp[w].status # StatusBadRequest

(* What does hold of C10: the handler goes on with what Bind left and      *)
(* never answers 400.                                                      *)
BindFailureNotRejected ==
    \A w \in Workers :
        (Done(w) /\ req[w].op \in Decoders /\ ~req[w].body.ok) =>
            resp[w].status \in {StatusCreated, StatusNoContent, StatusConflict,
                                StatusInternalServerError}

---------------------------------------------------------------------------
InFlight(w) == pc[w] \notin {"idle", "done"}

(* C11: every handler gives back every connection of the pool it took, on  *)
(* every exit path, the return after a failed StructScan included:         *)
(* whenever no request is in flight, no connection is in use.              *)
PoolDrainedAtRest ==
    (\A w \in Workers : ~InFlight(w)) => InUse = 0

(* What does hold of C11: at rest no transaction is open, and the          *)
(* connections still in use are those of the rows a failed StructScan left *)
(* open; with MaxOpenConns of them no handler can reach the store.         *)
PoolHoldsOnlyOpenRows ==
    (\A w \in Workers : ~InFlight(w)) => InUse = openRows

(* Nothing closes the rows a handler left open. *)
OpenRowsStayOpen == [][openRows' >= openRows]_vars

PoolExhausted ==
    /\ ~FreeConn
    /\ \E w \in Workers : pc[w] = "getPersonList:query"

===========================================================================
